---- MODULE Spec2Model ----
(***************************************************************************)
(* LearnIRCode.ino: an Arduino sketch that learns one IR remote code,      *)
(* keeps it in EEPROM and toggles an output when the code is received.     *)
(*                                                                         *)
(* Target board: AVR, int is 16 bits, long is 32 bits, two's complement.   *)
(* A long is modelled by the integer it denotes (-2^31 .. 2^31-1), an int  *)
(* by the integer it denotes (-2^15 .. 2^15-1), a byte by 0 .. 255.        *)
(***************************************************************************)
EXTENDS Integers, Sequences, FiniteSets, TLC

(***************************************************************************)
(* Bounds of the model.                                                    *)
(***************************************************************************)
\* number of EEPROM cells modelled (a prefix of the device's EEPROM)
EepromSize == 6
\* transmissions of the remote per boot
MaxSent == 3

(***************************************************************************)
(* Fixed-width arithmetic.                                                 *)
(***************************************************************************)
\* the 16-bit pattern of the low / high half of a long
LowBits(l) == l % 65536
HighBits(l) == (l \div 65536) % 65536

\* conversion of an integer value to a 16-bit int (wraps modulo 2^16)
ToInt(n) == LET w == n % 65536 IN IF w >= 32768 THEN w - 65536 ELSE w

\* the long whose halves have the given 16-bit patterns
ToLong(hi, lo) == ToInt(hi) * 65536 + lo

RECURSIVE BitAnd(_, _, _)
BitAnd(a, b, n) ==
    IF n = 0 THEN 0
    ELSE (a % 2) * (b % 2) + 2 * BitAnd(a \div 2, b \div 2, n - 1)

RECURSIVE BitOr(_, _, _)
BitOr(a, b, n) ==
    IF n = 0 THEN 0
    ELSE (IF (a % 2) + (b % 2) > 0 THEN 1 ELSE 0)
         + 2 * BitOr(a \div 2, b \div 2, n - 1)

\* a | b and a & b on longs
Or32(a, b) == ToLong(BitOr(HighBits(a), HighBits(b), 16),
                     BitOr(LowBits(a), LowBits(b), 16))
And32(a, b) == ToLong(BitAnd(HighBits(a), HighBits(b), 16),
                      BitAnd(LowBits(a), LowBits(b), 16))

\* ((long) n) << 16
ShiftLeft16(n) == ToLong(LowBits(n), 0)

\* 0xFFFFFFFF converted to long, and ~0x8000LL truncated to long
AllOnes == ToLong(65535, 65535)
NotToggleBit == ToLong(65535, 32767)

(***************************************************************************)
(* Macros of the sketch and of Arduino.h.                                  *)
(***************************************************************************)
\* #define makeLong(hi, low)  (((long) hi) << 16 | (low))
\* hi and low are ints; low is promoted to long (sign-extended) by |
makeLong(hi, low) == Or32(ShiftLeft16(hi), low)

\* #define highWord(w) ((w) >> 16)      (arithmetic shift of a long)
highWord(w) == w \div 65536

\* #define lowWord(w) ((w) & 0xffff)    (0xffff is 65535)
lowWord(w) == And32(w, 65535)

\* highByte(w) ((uint8_t) ((w) >> 8)), lowByte(w) ((uint8_t) ((w) & 0xff))
highByte(w) == (w \div 256) % 256
lowByte(w) == w % 256

\* word(h, l): (h << 8) | l as an unsigned 16-bit value
word(h, l) == h * 256 + l

IR_CODE_DATA_ADDRESS == 0

(***************************************************************************)
(* EEPROM access.  A store is a function from addresses to bytes.          *)
(***************************************************************************)
RECURSIVE EepromWrite(_, _)
\* the store after the EEPROM.write calls of ws, in order
EepromWrite(store, ws) ==
    IF ws = <<>> THEN store
    ELSE EepromWrite([store EXCEPT ![Head(ws)[1]] = Head(ws)[2]], Tail(ws))

\* both bytes of a word go to the same address
saveToEeprom_SameAddress(value, address) ==
    LET data == <<ToInt(highWord(value)), ToInt(lowWord(value))>>
    IN  << <<address + 0 * 2, highByte(data[1])>>,
           <<address + 0 * 2, lowByte(data[1])>>,
           <<address + 1 * 2, highByte(data[2])>>,
           <<address + 1 * 2, lowByte(data[2])>> >>

\* the low byte of each word is written before its high byte
saveToEeprom_LowByteFirst(value, address) ==
    LET data == <<ToInt(highWord(value)), ToInt(lowWord(value))>>
    IN  << <<address + 0 * 2,     lowByte(data[1])>>,
           <<address + 0 * 2 + 1, highByte(data[1])>>,
           <<address + 1 * 2,     lowByte(data[2])>>,
           <<address + 1 * 2 + 1, highByte(data[2])>> >>

\* the EEPROM.write calls saveToEeprom makes, in order, as <<address, byte>>
saveToEeprom(value, address) ==
    LET data == <<ToInt(highWord(value)), ToInt(lowWord(value))>>
    IN  << <<address + 0 * 2,     highByte(data[1])>>,
           <<address + 0 * 2 + 1, lowByte(data[1])>>,
           <<address + 1 * 2,     highByte(data[2])>>,
           <<address + 1 * 2 + 1, lowByte(data[2])>> >>

loadFromEeprom(store, address) ==
    LET data == [i \in 0..3 |-> store[address + i]]
        high == ToInt(word(data[0], data[1]))
        low  == ToInt(word(data[2], data[3]))
    IN  makeLong(high, low)

(***************************************************************************)
(* Debounced button read.  reads is the sequence of the four digitalRead   *)
(* results (0 or 1); pullUp is a boolean.                                  *)
(***************************************************************************)
\* the loop makes two re-reads instead of three
getButtonState_TwoRereads(reads, pullUp) ==
    LET pinState == reads[1]
    IN  IF \E i \in 2..3 : reads[i] # pinState
        THEN -1
        ELSE IF pullUp THEN 1 - pinState ELSE pinState

getButtonState(reads, pullUp) ==
    LET pinState == reads[1]
    IN  IF \E i \in 2..4 : reads[i] # pinState
        THEN -1
        ELSE IF pullUp THEN 1 - pinState ELSE pinState

(***************************************************************************)
(* The remote's transmissions.                                             *)
(***************************************************************************)
ProtocolTags == {"RC6", "NEC"}

\* raw decoded values: 0xA5, 0x5A, 0x80A5, 0x20DF10EF, 0xFFFF7FFF, 0xFFFFFFFF
RawValues == {165, 90, 32933, ToLong(8415, 4335), ToLong(65535, 32767), AllOnes}

Events == [value : RawValues, decode_type : ProtocolTags]

NoEvent == [value |-> 0, decode_type |-> "NONE"]

NoCode == [value |-> 0, decode_type |-> "NONE", code |-> 0]

(***************************************************************************)
(* State.                                                                  *)
(***************************************************************************)
VARIABLES
    pc,                 \* where the sketch is: setup, a step of loop, delay
    learnButtonState,   \* committed button state, 0 or 1
    learnModeEnabled,
    workLedState,
    irCodeData,
    eeprom,             \* EEPROM contents
    learnLedPin,        \* level last written to LEARN_LED_PIN
    workLedPin,         \* level last written to WORK_LED_PIN
    rcv,                \* receiver: "idle" (armed) or "stop" (holds a frame)
    irresult,           \* the frame the receiver holds
    buttonState,        \* last result of getButtonState
    writes,             \* the EEPROM.write calls of the last step
    learned,            \* the event and code of the last learn commit
    sent,               \* transmissions since boot
    repeatsInDelay,     \* of these, repeats of the held frame sent during a delay(100)
    toggles,            \* changes of workLedState since boot
    commits,            \* learn commits since boot
    unresumed,          \* successful irrecv.decode() calls not yet followed by resume()
    passed,             \* times the held frame was passed to processCode
    buttonEdge,         \* what processLearnButton did in this loop iteration
    rt                  \* inputs and result of a function applied on its own

vars == <<pc, learnButtonState, learnModeEnabled, workLedState, irCodeData,
          eeprom, learnLedPin, workLedPin, rcv, irresult, buttonState,
          writes, learned, sent, repeatsInDelay, toggles, commits,
          unresumed, passed, buttonEdge, rt>>

progVars == <<learnButtonState, learnModeEnabled, workLedState, irCodeData>>
pinVars == <<learnLedPin, workLedPin>>
countVars == <<sent, repeatsInDelay, toggles, commits>>
decodeVars == <<unresumed, passed>>

\* the decoder is polled before the button
loop_IrFirst == <<"processIr", "processLearnButton", "processLearnLed", "processWorkLed">>

\* the body of loop(), in order
loop == <<"processLearnButton", "processLearnLed", "processWorkLed", "processIr">>

\* where the sketch is after the given step of loop() has returned
Following(step) ==
    LET i == CHOOSE j \in 1..Len(loop) : loop[j] = step
    IN  loop[(i % Len(loop)) + 1]

\* the given step is the last of loop(): the iteration ends with it
EndsLoop(step) == loop[Len(loop)] = step

RtIdle == [value |-> 0, address |-> 0, store |-> <<>>, stage |-> "off", result |-> 0]

mainVars == <<pc, learnButtonState, learnModeEnabled, workLedState, irCodeData,
              eeprom, learnLedPin, workLedPin, rcv, irresult, buttonState,
              writes, learned, sent, repeatsInDelay, toggles, commits,
              unresumed, passed, buttonEdge>>

\* the sketch before setup(); never-written EEPROM reads 0xFF everywhere
PowerOn ==
    /\ pc = "setup"
    /\ learnButtonState = 0
    /\ learnModeEnabled = FALSE
    /\ workLedState = FALSE
    /\ irCodeData = 0
    /\ eeprom = [a \in 0..(EepromSize - 1) |-> 255]
    /\ learnLedPin = FALSE
    /\ workLedPin = FALSE
    /\ rcv = "off"
    /\ irresult = NoEvent
    /\ buttonState = 0
    /\ writes = <<>>
    /\ learned = NoCode
    /\ sent = 0
    /\ repeatsInDelay = 0
    /\ toggles = 0
    /\ commits = 0
    /\ unresumed = 0
    /\ passed = 0
    /\ buttonEdge = "unpolled"

Init ==
    /\ PowerOn
    /\ rt = RtIdle

(***************************************************************************)
(* Operations.                                                             *)
(***************************************************************************)
setup ==
    /\ pc = "setup"
    /\ irCodeData' = loadFromEeprom(eeprom, IR_CODE_DATA_ADDRESS)
    /\ rcv' = "idle"
    /\ pc' = loop[1]
    /\ writes' = <<>>
    /\ UNCHANGED <<learnButtonState, learnModeEnabled, workLedState, eeprom,
                   irresult, buttonState, learned, buttonEdge, rt>>
    /\ UNCHANGED pinVars
    /\ UNCHANGED countVars
    /\ UNCHANGED decodeVars

\* what a processLearnButton step did, given the committed button state
\* before and after it
ButtonEdge(before, after) ==
    IF EndsLoop("processLearnButton") THEN "unpolled"
    ELSE IF before = after THEN "none"
    ELSE IF after = 1 THEN "press"
    ELSE "release"

\* the mode is set on a press edge but not cleared on a release edge
processLearnButton_PressOnly ==
    /\ pc = "processLearnButton"
    /\ \E reads \in [1..4 -> {0, 1}] :
         /\ buttonState' = getButtonState(reads, TRUE)
         /\ IF buttonState' = -1
            THEN UNCHANGED <<learnButtonState, learnModeEnabled>>
            ELSE IF buttonState' = learnButtonState
                 THEN UNCHANGED <<learnButtonState, learnModeEnabled>>
                 ELSE /\ learnButtonState' = buttonState'
                      /\ learnModeEnabled' = (learnModeEnabled \/ buttonState' # 0)
    /\ buttonEdge' = ButtonEdge(learnButtonState, learnButtonState')
    /\ pc' = Following("processLearnButton")
    /\ writes' = <<>>
    /\ UNCHANGED <<workLedState, irCodeData, eeprom, rcv, irresult, learned, rt>>
    /\ UNCHANGED pinVars
    /\ UNCHANGED countVars
    /\ UNCHANGED decodeVars

\* the mode follows the button level, also when the committed state is unchanged
processLearnButton_LevelTriggered ==
    /\ pc = "processLearnButton"
    /\ \E reads \in [1..4 -> {0, 1}] :
         /\ buttonState' = getButtonState(reads, TRUE)
         /\ IF buttonState' = -1
            THEN UNCHANGED <<learnButtonState, learnModeEnabled>>
            ELSE /\ learnButtonState' = buttonState'
                 /\ learnModeEnabled' = (buttonState' # 0)
    /\ buttonEdge' = ButtonEdge(learnButtonState, learnButtonState')
    /\ pc' = Following("processLearnButton")
    /\ writes' = <<>>
    /\ UNCHANGED <<workLedState, irCodeData, eeprom, rcv, irresult, learned, rt>>
    /\ UNCHANGED pinVars
    /\ UNCHANGED countVars
    /\ UNCHANGED decodeVars

\* the indeterminate result -1 is not filtered
processLearnButton_NoBounceCheck ==
    /\ pc = "processLearnButton"
    /\ \E reads \in [1..4 -> {0, 1}] :
         /\ buttonState' = getButtonState(reads, TRUE)
         /\ IF buttonState' = learnButtonState
            THEN UNCHANGED <<learnButtonState, learnModeEnabled>>
            ELSE /\ learnButtonState' = buttonState'
                 /\ learnModeEnabled' = (buttonState' # 0)
    /\ buttonEdge' = ButtonEdge(learnButtonState, learnButtonState')
    /\ pc' = Following("processLearnButton")
    /\ writes' = <<>>
    /\ UNCHANGED <<workLedState, irCodeData, eeprom, rcv, irresult, learned, rt>>
    /\ UNCHANGED pinVars
    /\ UNCHANGED countVars
    /\ UNCHANGED decodeVars

\* every committed edge toggles the mode
processLearnButton_ToggleMode ==
    /\ pc = "processLearnButton"
    /\ \E reads \in [1..4 -> {0, 1}] :
         /\ buttonState' = getButtonState(reads, TRUE)
         /\ IF buttonState' = -1
            THEN UNCHANGED <<learnButtonState, learnModeEnabled>>
            ELSE IF buttonState' = learnButtonState
                 THEN UNCHANGED <<learnButtonState, learnModeEnabled>>
                 ELSE /\ learnButtonState' = buttonState'
                      /\ learnModeEnabled' = ~learnModeEnabled
    /\ buttonEdge' = ButtonEdge(learnButtonState, learnButtonState')
    /\ pc' = Following("processLearnButton")
    /\ writes' = <<>>
    /\ UNCHANGED <<workLedState, irCodeData, eeprom, rcv, irresult, learned, rt>>
    /\ UNCHANGED pinVars
    /\ UNCHANGED countVars
    /\ UNCHANGED decodeVars

processLearnButton ==
    /\ pc = "processLearnButton"
    /\ \E reads \in [1..4 -> {0, 1}] :
         /\ buttonState' = getButtonState(reads, TRUE)
         /\ IF buttonState' = -1
            THEN UNCHANGED <<learnButtonState, learnModeEnabled>>
            ELSE IF buttonState' = learnButtonState
                 THEN UNCHANGED <<learnButtonState, learnModeEnabled>>
                 ELSE /\ learnButtonState' = buttonState'
                      /\ learnModeEnabled' = (buttonState' # 0)
    /\ buttonEdge' = ButtonEdge(learnButtonState, learnButtonState')
    /\ pc' = Following("processLearnButton")
    /\ writes' = <<>>
    /\ UNCHANGED <<workLedState, irCodeData, eeprom, rcv, irresult, learned, rt>>
    /\ UNCHANGED pinVars
    /\ UNCHANGED countVars
    /\ UNCHANGED decodeVars

processLearnLed ==
    /\ pc = "processLearnLed"
    /\ learnLedPin' = learnModeEnabled
    /\ pc' = Following("processLearnLed")
    /\ buttonEdge' = IF EndsLoop("processLearnLed") THEN "unpolled" ELSE buttonEdge
    /\ writes' = <<>>
    /\ UNCHANGED <<workLedPin, eeprom, rcv, irresult, buttonState, learned, rt>>
    /\ UNCHANGED progVars
    /\ UNCHANGED countVars
    /\ UNCHANGED decodeVars

\* the pin is written only to switch the LED on
processWorkLed_OnlyHigh ==
    /\ pc = "processWorkLed"
    /\ workLedPin' = IF workLedState THEN TRUE ELSE workLedPin
    /\ pc' = Following("processWorkLed")
    /\ buttonEdge' = IF EndsLoop("processWorkLed") THEN "unpolled" ELSE buttonEdge
    /\ writes' = <<>>
    /\ UNCHANGED <<learnLedPin, eeprom, rcv, irresult, buttonState, learned, rt>>
    /\ UNCHANGED progVars
    /\ UNCHANGED countVars
    /\ UNCHANGED decodeVars

processWorkLed ==
    /\ pc = "processWorkLed"
    /\ workLedPin' = workLedState
    /\ pc' = Following("processWorkLed")
    /\ buttonEdge' = IF EndsLoop("processWorkLed") THEN "unpolled" ELSE buttonEdge
    /\ writes' = <<>>
    /\ UNCHANGED <<learnLedPin, eeprom, rcv, irresult, buttonState, learned, rt>>
    /\ UNCHANGED progVars
    /\ UNCHANGED countVars
    /\ UNCHANGED decodeVars

\* the commit leaves learnModeEnabled set
learnCode_StaysInLearning(value) ==
    /\ irCodeData' = value
    /\ writes' = saveToEeprom(value, IR_CODE_DATA_ADDRESS)
    /\ eeprom' = EepromWrite(eeprom, writes')
    /\ learned' = [value |-> irresult.value,
                   decode_type |-> irresult.decode_type, code |-> value]
    /\ commits' = commits + 1
    /\ pc' = "delay"
    /\ UNCHANGED <<learnModeEnabled, workLedState, toggles>>

\* processCode, branch learnModeEnabled: remember the code, save it, leave
\* Learning, then delay(100)
learnCode(value) ==
    /\ irCodeData' = value
    /\ writes' = saveToEeprom(value, IR_CODE_DATA_ADDRESS)
    /\ eeprom' = EepromWrite(eeprom, writes')
    /\ learnModeEnabled' = FALSE
    /\ learned' = [value |-> irresult.value,
                   decode_type |-> irresult.decode_type, code |-> value]
    /\ commits' = commits + 1
    /\ pc' = "delay"
    /\ UNCHANGED <<workLedState, toggles>>

\* processCode, branch irCodeData == value: toggle, then delay(100)
toggleWorkLed ==
    /\ workLedState' = ~workLedState
    /\ toggles' = toggles + 1
    /\ pc' = "delay"
    /\ writes' = <<>>
    /\ UNCHANGED <<irCodeData, eeprom, learnModeEnabled, learned, commits>>

\* processCode is not called, or takes neither branch
ignoreCode ==
    /\ pc' = "resume"
    /\ writes' = <<>>
    /\ UNCHANGED <<irCodeData, eeprom, learnModeEnabled, learned, commits,
                   workLedState, toggles>>

\* the commit also toggles the work LED
processCode_ToggleOnLearn(value) ==
    IF learnModeEnabled
    THEN /\ irCodeData' = value
         /\ writes' = saveToEeprom(value, IR_CODE_DATA_ADDRESS)
         /\ eeprom' = EepromWrite(eeprom, writes')
         /\ learnModeEnabled' = FALSE
         /\ learned' = [value |-> irresult.value,
                        decode_type |-> irresult.decode_type, code |-> value]
         /\ commits' = commits + 1
         /\ pc' = "delay"
         /\ workLedState' = ~workLedState
         /\ toggles' = toggles + 1
    ELSE IF irCodeData = value
         THEN toggleWorkLed
         ELSE ignoreCode

\* a match switches the work LED on instead of toggling it
processCode_SetOnMatch(value) ==
    IF learnModeEnabled
    THEN learnCode(value)
    ELSE IF irCodeData = value
         THEN /\ workLedState' = TRUE
              /\ toggles' = IF workLedState THEN toggles ELSE toggles + 1
              /\ pc' = "delay"
              /\ writes' = <<>>
              /\ UNCHANGED <<irCodeData, eeprom, learnModeEnabled, learned, commits>>
         ELSE ignoreCode

\* Normal mode toggles on every code, without comparing it with irCodeData
processCode_NoCompare(value) ==
    IF learnModeEnabled
    THEN learnCode(value)
    ELSE toggleWorkLed

\* processCode up to its delay(100) (pc' = "delay") or, when it does not
\* delay, up to its return (pc' = "resume")
processCode(value) ==
    IF learnModeEnabled
    THEN learnCode(value)
    ELSE IF irCodeData = value
         THEN toggleWorkLed
         ELSE ignoreCode

\* the toggle bit is cleared for every protocol
normalize_AllProtocols(value, decode_type) == And32(value, NotToggleBit)

\* the toggle bit is set instead of cleared (value |= 0x8000)
normalize_SetsToggleBit(value, decode_type) ==
    IF decode_type = "RC6" THEN Or32(value, 32768) ELSE value

\* the value processIr passes to processCode for a frame that is not 0xFFFFFFFF
normalize(value, decode_type) ==
    IF decode_type = "RC6" THEN And32(value, NotToggleBit) ELSE value

\* processIr returns, and with it loop() when processIr is its last step
returnFromProcessIr ==
    /\ pc' = Following("processIr")
    /\ buttonEdge' = IF EndsLoop("processIr") THEN "unpolled" ELSE buttonEdge

\* the 0xFFFFFFFF frame makes processIr return before irrecv.resume()
IrDecode_SentinelSkipsResume ==
    /\ pc = "processIr"
    /\ IF rcv = "stop"
       THEN /\ unresumed' = unresumed + 1
            /\ IF AllOnes # irresult.value
               THEN /\ processCode(normalize(irresult.value, irresult.decode_type))
                    /\ passed' = passed + 1
                    /\ UNCHANGED buttonEdge
               ELSE /\ returnFromProcessIr
                    /\ writes' = <<>>
                    /\ UNCHANGED <<irCodeData, eeprom, learnModeEnabled, learned,
                                   commits, workLedState, toggles>>
                    /\ UNCHANGED passed
       ELSE /\ returnFromProcessIr
            /\ writes' = <<>>
            /\ UNCHANGED <<irCodeData, eeprom, learnModeEnabled, learned,
                           commits, workLedState, toggles>>
            /\ UNCHANGED decodeVars
    /\ UNCHANGED <<learnButtonState, rcv, irresult, buttonState, sent,
                   repeatsInDelay, rt>>
    /\ UNCHANGED pinVars

\* the 0xFFFFFFFF frame is not filtered
IrDecode_NoSentinelCheck ==
    /\ pc = "processIr"
    /\ IF rcv = "stop"
       THEN /\ unresumed' = unresumed + 1
            /\ processCode(normalize(irresult.value, irresult.decode_type))
            /\ passed' = passed + 1
            /\ UNCHANGED buttonEdge
       ELSE /\ returnFromProcessIr
            /\ writes' = <<>>
            /\ UNCHANGED <<irCodeData, eeprom, learnModeEnabled, learned,
                           commits, workLedState, toggles>>
            /\ UNCHANGED decodeVars
    /\ UNCHANGED <<learnButtonState, rcv, irresult, buttonState, sent,
                   repeatsInDelay, rt>>
    /\ UNCHANGED pinVars

\* processIr from irrecv.decode() up to the delay(100) of processCode, or up to
\* the call of irrecv.resume() when processCode is not called or does not delay
IrDecode ==
    /\ pc = "processIr"
    /\ IF rcv = "stop"
       THEN /\ unresumed' = unresumed + 1
            /\ IF AllOnes # irresult.value
               THEN /\ processCode(normalize(irresult.value, irresult.decode_type))
                    /\ passed' = passed + 1
               ELSE /\ ignoreCode
                    /\ UNCHANGED passed
            /\ UNCHANGED buttonEdge
       ELSE /\ returnFromProcessIr
            /\ writes' = <<>>
            /\ UNCHANGED <<irCodeData, eeprom, learnModeEnabled, learned,
                           commits, workLedState, toggles>>
            /\ UNCHANGED decodeVars
    /\ UNCHANGED <<learnButtonState, rcv, irresult, buttonState, sent,
                   repeatsInDelay, rt>>
    /\ UNCHANGED pinVars

\* the delay(100) of processCode ends and processCode returns
IrDelay ==
    /\ pc = "delay"
    /\ pc' = "resume"
    /\ writes' = <<>>
    /\ UNCHANGED <<eeprom, rcv, irresult, buttonState, learned, buttonEdge, rt>>
    /\ UNCHANGED progVars
    /\ UNCHANGED pinVars
    /\ UNCHANGED countVars
    /\ UNCHANGED decodeVars

\* irrecv.resume() at the end of processIr; loop() returns
IrResume ==
    /\ pc = "resume"
    /\ rcv' = "idle"
    /\ unresumed' = unresumed - 1
    /\ returnFromProcessIr
    /\ writes' = <<>>
    /\ UNCHANGED <<eeprom, irresult, buttonState, learned, passed, rt>>
    /\ UNCHANGED progVars
    /\ UNCHANGED pinVars
    /\ UNCHANGED countVars

\* irrecv.resume() is called before processCode instead of after it
processIr_ResumeBeforeProcess ==
    \/ /\ pc = "processIr"
       /\ IF rcv = "stop"
          THEN /\ rcv' = "idle"
               /\ IF AllOnes # irresult.value
                  THEN /\ processCode(normalize(irresult.value, irresult.decode_type))
                       /\ passed' = passed + 1
                  ELSE /\ ignoreCode
                       /\ UNCHANGED passed
               /\ UNCHANGED <<unresumed, buttonEdge>>
          ELSE /\ returnFromProcessIr
               /\ writes' = <<>>
               /\ UNCHANGED <<irCodeData, eeprom, learnModeEnabled, learned,
                              commits, workLedState, toggles, rcv>>
               /\ UNCHANGED decodeVars
       /\ UNCHANGED <<learnButtonState, irresult, buttonState, sent,
                      repeatsInDelay, rt>>
       /\ UNCHANGED pinVars
    \/ IrDelay
    \/ /\ pc = "resume"
       /\ returnFromProcessIr
       /\ writes' = <<>>
       /\ UNCHANGED <<eeprom, rcv, irresult, buttonState, learned, rt>>
       /\ UNCHANGED progVars
       /\ UNCHANGED pinVars
       /\ UNCHANGED countVars
       /\ UNCHANGED decodeVars

\* processIr; the receiver's interrupt can run between its three phases
processIr ==
    \/ IrDecode
    \/ IrDelay
    \/ IrResume

\* The remote transmits a frame.  The armed receiver captures it; a receiver
\* that holds a frame and has not been resumed ignores it.
Transmit ==
    /\ pc # "setup"
    /\ sent < MaxSent
    /\ \E e \in Events :
         /\ IF rcv = "idle"
            THEN rcv' = "stop" /\ irresult' = e /\ passed' = 0
            ELSE UNCHANGED <<rcv, irresult, passed>>
         /\ repeatsInDelay' = IF pc = "delay" /\ e = irresult
                              THEN repeatsInDelay + 1 ELSE repeatsInDelay
    /\ sent' = sent + 1
    /\ writes' = <<>>
    /\ UNCHANGED <<pc, eeprom, buttonState, learned, toggles, commits,
                   unresumed, buttonEdge, rt>>
    /\ UNCHANGED progVars
    /\ UNCHANGED pinVars

\* Power cycle: RAM is initialised again, EEPROM keeps its contents.
Reset ==
    /\ pc # "setup"
    /\ pc' = "setup"
    /\ learnButtonState' = 0
    /\ learnModeEnabled' = FALSE
    /\ workLedState' = FALSE
    /\ irCodeData' = 0
    /\ learnLedPin' = FALSE
    /\ workLedPin' = FALSE
    /\ rcv' = "off"
    /\ irresult' = NoEvent
    /\ buttonState' = 0
    /\ writes' = <<>>
    /\ sent' = 0
    /\ repeatsInDelay' = 0
    /\ toggles' = 0
    /\ commits' = 0
    /\ unresumed' = 0
    /\ passed' = 0
    /\ buttonEdge' = "unpolled"
    /\ UNCHANGED <<eeprom, learned, rt>>

Next ==
    \/ setup
    \/ processLearnButton
    \/ processLearnLed
    \/ processWorkLed
    \/ processIr
    \/ Transmit
    \/ Reset

Spec == Init /\ [][Next]_vars

(***************************************************************************)
(* One boot of the sketch with its scheduling: the Arduino core calls      *)
(* setup() once and then loop() again and again, and every call and every  *)
(* delay() returns.  The remote is free to transmit or not.                *)
(***************************************************************************)
\* the sketch takes its next step (pc enables one of these at a time)
SketchStep ==
    \/ setup
    \/ processLearnButton
    \/ processLearnLed
    \/ processWorkLed
    \/ processIr

\* transmissions in the one boot
MaxLiveSent == 2

LiveTransmit ==
    /\ sent < MaxLiveSent
    /\ Transmit

LiveNext ==
    \/ SketchStep
    \/ LiveTransmit

LiveSpec ==
    /\ Init
    /\ [][LiveNext]_vars
    /\ WF_vars(SketchStep)

(***************************************************************************)
(* saveToEeprom followed by loadFromEeprom on a store nothing else touches.*)
(***************************************************************************)
\* largest base address tried
MaxAddress == 2

\* 32-bit values with every combination of these high and low halves
RtHalves == {0, 165, 8415, 32767, 32768, 32933, 65535}
RtValues == {ToLong(h, l) : h \in RtHalves, l \in RtHalves}

RtInit ==
    /\ PowerOn
    /\ rt \in [value : RtValues,
                address : 0..MaxAddress,
                store : {[a \in 0..(MaxAddress + 3) |-> fill] : fill \in {0, 255}},
                stage : {"init"},
                result : {0}]

RtSave ==
    /\ rt.stage = "init"
    /\ rt' = [rt EXCEPT !.store = EepromWrite(rt.store,
                                              saveToEeprom(rt.value, rt.address)),
                        !.stage = "saved"]
    /\ UNCHANGED mainVars

RtLoad ==
    /\ rt.stage = "saved"
    /\ rt' = [rt EXCEPT !.result = loadFromEeprom(rt.store, rt.address),
                        !.stage = "loaded"]
    /\ UNCHANGED mainVars

RtNext ==
    \/ RtSave
    \/ RtLoad

RtSpec == RtInit /\ [][RtNext]_vars

(***************************************************************************)
(* getButtonState on its own: the levels of the input pins at the times of *)
(* the four reads are drawn freely, and so are the pin and pullUp.         *)
(***************************************************************************)
RECV_PIN == 8
LEARN_BUTTON_PIN == 10

InputPins == {RECV_PIN, LEARN_BUTTON_PIN}

DbInit ==
    /\ PowerOn
    /\ rt \in [levels : [InputPins -> [1..4 -> {0, 1}]],
                pin : InputPins,
                pullUp : BOOLEAN,
                stage : {"init"},
                result : {0}]

\* getButtonState(pin, pullUp): its digitalRead(pin) calls see levels[pin]
DbCall ==
    /\ rt.stage = "init"
    /\ rt' = [rt EXCEPT !.result = getButtonState(rt.levels[rt.pin], rt.pullUp),
                        !.stage = "returned"]
    /\ UNCHANGED mainVars

DbNext == DbCall

DbSpec == DbInit /\ [][DbNext]_vars

(***************************************************************************)
(* Vocabulary of the properties.                                           *)
(***************************************************************************)
\* v with bit 15 cleared, all other bits kept
ClearBit15(v) == IF (v \div 32768) % 2 = 1 THEN v - 32768 ELSE v

\* the normalized code of a frame
CodeOf(e) == IF e.decode_type = "RC6" THEN ClearBit15(e.value) ELSE e.value

\* processIr is about to decode a frame / a frame that is not the sentinel
Pending == pc = "processIr" /\ rcv = "stop"
Valid == Pending /\ irresult.value # AllOnes

\* the step is the decode phase of processIr (not a transmission or a reset)
IrStep == pc = "processIr" /\ pc' \in {"processLearnButton", "delay", "resume"}

\* the step processes a valid frame in Learning mode / a matching one in Normal mode
LearnStep == Valid /\ IrStep /\ learnModeEnabled
NormalStep == Valid /\ IrStep /\ ~learnModeEnabled
MatchStep == NormalStep /\ CodeOf(irresult) = irCodeData

\* the step is processLearnButton
ButtonStep == pc = "processLearnButton" /\ pc' = "processLearnLed"

(***************************************************************************)
(* Properties.                                                             *)
(***************************************************************************)
\* C1: the trained code survives a power cycle: when setup() runs after a
\* code c was learned, the value it loads into irCodeData is c.
C1_TrainedCodeSurvivesReset ==
    [][(pc = "setup" /\ pc' # "setup" /\ learned # NoCode)
          => irCodeData' = learned.code]_vars

\* C2: persistence round trip: loadFromEeprom(a) returns v after
\* saveToEeprom(v, a) on an otherwise untouched store.
C2_RoundTrip == rt.stage = "loaded" => rt.result = rt.value

\* C3: learn then match: a press edge enters Learning; a valid frame with
\* code c processed in Learning sets irCodeData = c, leaves Learning and does
\* not touch workLedState; a later frame with code c processed in Normal mode
\* (same boot, no learn in between) toggles workLedState exactly once.
C3_LearnThenMatch ==
    [][ /\ (ButtonStep /\ learnButtonState = 0 /\ learnButtonState' = 1)
            => learnModeEnabled'
        /\ LearnStep
            => /\ irCodeData' = CodeOf(irresult)
               /\ ~learnModeEnabled'
               /\ workLedState' = workLedState
               /\ toggles' = toggles
        /\ (NormalStep /\ commits > 0 /\ CodeOf(irresult) = learned.code)
            => /\ workLedState' = ~workLedState
               /\ toggles' = toggles + 1 ]_vars

W_C3 ==
    /\ pc = "delay"
    /\ commits = 1
    /\ toggles = 1
    /\ workLedState
    /\ CodeOf(irresult) = learned.code
    /\ irCodeData = learned.code

\* C4: workLedState is false at boot; it changes only in a step that
\* processes a valid frame in Normal mode whose code equals irCodeData, and
\* every such step flips it exactly once.
C4_OutputChangesOnlyOnMatch ==
    /\ [](pc = "setup" => ~workLedState)
    /\ [][ /\ (workLedState' # workLedState /\ pc' # "setup") => MatchStep
           /\ MatchStep => /\ workLedState' = ~workLedState
                           /\ toggles' = toggles + 1
           /\ (toggles' # toggles /\ pc' # "setup") => MatchStep ]_vars

W_C4 ==
    /\ pc = "delay"
    /\ toggles = 2
    /\ ~workLedState
    /\ ~learnModeEnabled
    /\ CodeOf(irresult) = irCodeData

\* C5: in Normal mode, processing a frame whose code differs from irCodeData
\* leaves workLedState, irCodeData, the mode, the committed button state and
\* the EEPROM unchanged.
C5_NonMatchingIgnored ==
    [][(NormalStep /\ CodeOf(irresult) # irCodeData)
          => /\ UNCHANGED <<workLedState, irCodeData, learnModeEnabled,
                            learnButtonState, eeprom>>
             /\ writes' = <<>>
             /\ toggles' = toggles /\ commits' = commits]_vars

W_C5 ==
    /\ pc = "resume"
    /\ rcv = "stop"
    /\ irresult.value = 90
    /\ irCodeData = 165
    /\ ~learnModeEnabled
    /\ workLedState

\* C6: a release edge committed while in Learning (no frame committed yet)
\* ends Learning and changes nothing but the mode and the committed button
\* state; no EEPROM write happens.
C6_AbortLearn ==
    [][(ButtonStep /\ learnModeEnabled /\ learnButtonState = 1
          /\ learnButtonState' = 0)
          => /\ ~learnModeEnabled'
             /\ UNCHANGED <<irCodeData, eeprom, workLedState, learned>>
             /\ UNCHANGED <<rcv, irresult>>
             /\ UNCHANGED pinVars
             /\ UNCHANGED countVars
             /\ writes' = <<>>]_vars

W_C6 ==
    /\ pc = "processLearnLed"
    /\ learnLedPin
    /\ ~learnModeEnabled
    /\ learnButtonState = 0
    /\ buttonState = 0
    /\ commits = 0
    /\ irCodeData = 165

\* C7: after boot irCodeData changes only in a step that processes a valid
\* frame in Learning mode; the EEPROM is written only in such a step, which
\* writes each of the 4 bytes exactly once.
C7_ChangeOnlyOnCommit ==
    [][ /\ (irCodeData' # irCodeData /\ pc # "setup" /\ pc' # "setup")
            => LearnStep
        /\ (eeprom' # eeprom \/ writes' # <<>>) => LearnStep
        /\ LearnStep
            => /\ Len(writes') = 4
               /\ \A k \in 0..3 :
                    Cardinality({i \in 1..Len(writes') :
                        writes'[i][1] = IR_CODE_DATA_ADDRESS + k}) = 1
               /\ commits' = commits + 1 ]_vars

W_C7 ==
    /\ pc = "delay"
    /\ Len(writes) = 4
    /\ commits = 2
    /\ irCodeData = learned.code
    /\ irCodeData = 90

\* C8: a frame with value 0xFFFFFFFF is never processed, whatever its
\* protocol and whatever the mode: the mode, irCodeData, the EEPROM and
\* workLedState stay as they are.
C8_SentinelIgnored ==
    [][(Pending /\ IrStep /\ irresult.value = AllOnes)
          => /\ UNCHANGED <<learnModeEnabled, irCodeData, eeprom, workLedState,
                            learnButtonState, learned>>
             /\ writes' = <<>>
             /\ toggles' = toggles /\ commits' = commits
             /\ pc' = "resume"]_vars

W_C8 ==
    /\ pc = "resume"
    /\ rcv = "stop"
    /\ irresult.value = AllOnes
    /\ irresult.decode_type = "RC6"
    /\ learnModeEnabled

\* two values that differ in bit 15 and nowhere else
DifferOnlyInBit15(a, b) == a # b /\ ClearBit15(a) = ClearBit15(b)

\* C9: the code processed for a valid frame is its value with bit 15 cleared
\* for RC6 and its value unchanged for any other protocol: that code is what
\* Learning stores and what Normal mode compares with irCodeData.  Two valid
\* RC6 frames that differ only in bit 15 are the same command, two frames of
\* another protocol that differ only in bit 15 are not.
C9_ToggleBitNormalization ==
    [][ /\ LearnStep
            => irCodeData' = (IF irresult.decode_type = "RC6"
                              THEN ClearBit15(irresult.value)
                              ELSE irresult.value)
        /\ NormalStep
            => ((workLedState' # workLedState)
                  <=> irCodeData = (IF irresult.decode_type = "RC6"
                                    THEN ClearBit15(irresult.value)
                                    ELSE irresult.value))
        /\ (NormalStep /\ commits > 0
              /\ learned.decode_type = irresult.decode_type
              /\ DifferOnlyInBit15(learned.value, irresult.value))
            => ((workLedState' # workLedState)
                  <=> irresult.decode_type = "RC6") ]_vars

W_C9 ==
    /\ pc = "delay"
    /\ commits = 1
    /\ toggles = 1
    /\ learned.decode_type = "RC6"
    /\ learned.value = 32933
    /\ irresult.decode_type = "RC6"
    /\ irresult.value = 165

\* C10: the receiver is not resumed during a delay(100), so a repeat of the
\* frame sent during the delay is lost: every toggle and every learn commit
\* uses up one transmission that was not such a repeat.
C10_RapidRepeatsSuppressed ==
    /\ pc = "delay" => rcv = "stop"
    /\ toggles + commits <= sent - repeatsInDelay

W_C10 ==
    /\ pc = "processIr"
    /\ rcv = "idle"
    /\ sent = 2
    /\ repeatsInDelay = 1
    /\ toggles = 1
    /\ commits = 0
    /\ CodeOf(irresult) = irCodeData

\* C11: the mode is entered on a debounced press edge only: learnModeEnabled
\* becomes true only in a processLearnButton step that samples Pressed while
\* the committed state is Released; while the committed state stays Pressed
\* and the mode is Normal (after a commit with the button held) no sample
\* and no frame brings Learning back or is learned.
C11_ModeEntryEdgeTriggered ==
    [][ /\ (~learnModeEnabled /\ learnModeEnabled')
            => /\ ButtonStep
               /\ buttonState' = 1
               /\ learnButtonState = 0
               /\ learnButtonState' = 1
        /\ (~learnModeEnabled /\ learnButtonState = 1 /\ learnButtonState' = 1)
            => /\ ~learnModeEnabled'
               /\ irCodeData' = irCodeData
               /\ commits' = commits ]_vars

W_C11 ==
    /\ pc = "delay"
    /\ commits = 1
    /\ toggles = 1
    /\ learnButtonState = 1
    /\ buttonState = 1
    /\ buttonEdge = "none"
    /\ ~learnModeEnabled

\* C14: a processLearnButton step whose sample is -1 changes neither the
\* committed button state nor the mode, irCodeData, workLedState or the
\* EEPROM; the committed button state is always 0 or 1.
C14_IndeterminateIsNoOp ==
    /\ [](learnButtonState \in {0, 1})
    /\ [][(ButtonStep /\ buttonState' = -1)
            => /\ UNCHANGED <<learnButtonState, learnModeEnabled, irCodeData,
                              workLedState, eeprom>>
               /\ writes' = <<>>
               /\ buttonEdge' = "none"]_vars

W_C14 ==
    /\ pc = "processLearnLed"
    /\ buttonState = -1
    /\ learnModeEnabled
    /\ learnButtonState = 1
    /\ workLedState

\* C20: Learning mode implies that the committed button state is Pressed.
C20_LearningImpliesPressed == learnModeEnabled => learnButtonState = 1

W_C20 ==
    /\ learnModeEnabled
    /\ learnButtonState = 1
    /\ pc = "processIr"
    /\ commits = 1

\* byte k (0 is the most significant) of the 32-bit pattern of v
BigEndianByte(v, k) == (v \div <<16777216, 65536, 256, 1>>[k + 1]) % 256

\* C12: after saveToEeprom(v, a) the byte at a+k is (v >> (8*(3-k))) & 0xFF
\* for k in 0..3, and every other address keeps its contents.
C12_PersistedLayout ==
    [][(rt.stage = "init" /\ rt'.stage = "saved")
          => \A x \in DOMAIN rt.store :
                rt'.store[x] = IF x \in rt.address..(rt.address + 3)
                               THEN BigEndianByte(rt.value, x - rt.address)
                               ELSE rt.store[x]]_vars

W_C12 ==
    /\ rt.stage = "saved"
    /\ rt.value = ToLong(8415, 32933)
    /\ rt.address = 2
    /\ rt.store = [x \in 0..(MaxAddress + 3) |->
                     IF x < 2 THEN 255 ELSE <<32, 223, 128, 165>>[x - 1]]

\* C12, in the sketch: right after a learn commit the 4 bytes at
\* IR_CODE_DATA_ADDRESS are the big-endian bytes of irCodeData and the other
\* cells are as before.
C12_CommitLayout ==
    [][LearnStep
          => \A x \in DOMAIN eeprom :
                eeprom'[x] = IF x \in IR_CODE_DATA_ADDRESS..(IR_CODE_DATA_ADDRESS + 3)
                             THEN BigEndianByte(irCodeData', x - IR_CODE_DATA_ADDRESS)
                             ELSE eeprom[x]]_vars

\* C13: getButtonState returns -1 exactly when one of the 3 re-reads differs
\* from the first read, and otherwise pullUp XOR level: with pullUp a stable
\* low level gives 1 (Pressed) and a stable high level gives 0 (Released).
C13_DebounceResult ==
    rt.stage = "returned"
        => LET r == rt.levels[rt.pin]
               stable == \A i \in 2..4 : r[i] = r[1]
           IN  /\ (rt.result = -1) <=> ~stable
               /\ stable => rt.result = (IF rt.pullUp = (r[1] = 1) THEN 0 ELSE 1)
               /\ (stable /\ rt.pullUp /\ r[1] = 0) => rt.result = 1
               /\ (stable /\ rt.pullUp /\ r[1] = 1) => rt.result = 0

W_C13 ==
    /\ rt.stage = "returned"
    /\ rt.pin = LEARN_BUTTON_PIN
    /\ rt.pullUp
    /\ \A i \in 1..4 : rt.levels[LEARN_BUTTON_PIN][i] = 0
    /\ rt.levels[RECV_PIN][1] = 1
    /\ rt.levels[RECV_PIN][4] = 0
    /\ rt.result = 1

\* the 4 bytes of the trained code are as in an EEPROM never written
Unwritten == \A k \in 0..3 : eeprom[IR_CODE_DATA_ADDRESS + k] = 255

\* C15: with never-written storage setup() loads irCodeData = 0xFFFFFFFF,
\* and as long as nothing was learned no frame toggles workLedState: no code
\* that reaches processCode equals 0xFFFFFFFF.
C15_UnwrittenNeverMatches ==
    (Unwritten /\ pc # "setup")
        => /\ irCodeData = AllOnes
           /\ commits = 0
           /\ toggles = 0
           /\ ~workLedState

W_C15 ==
    /\ Unwritten
    /\ pc = "resume"
    /\ rcv = "stop"
    /\ passed = 1
    /\ irresult = [value |-> ToLong(65535, 32767), decode_type |-> "RC6"]
    /\ ~learnModeEnabled
    /\ sent = 3

\* C16: every successful irrecv.decode() is followed by exactly one
\* irrecv.resume() before processIr returns, whatever the frame; resume() is
\* called only after a successful decode; a held frame is passed to
\* processCode at most once.
C16_DecodeResumeProtocol ==
    /\ [](/\ unresumed \in {0, 1}
          /\ passed \in {0, 1}
          /\ (unresumed = 1) <=> (pc \in {"delay", "resume"}))
    /\ [][ /\ (IrStep /\ rcv = "stop")
               => /\ unresumed' = unresumed + 1
                  /\ pc' \in {"delay", "resume"}
           /\ (IrStep /\ rcv # "stop") => UNCHANGED <<unresumed, passed, rcv>>
           /\ (rcv = "stop" /\ rcv' = "idle")
               => (unresumed = 1 /\ unresumed' = 0)
           /\ (unresumed' < unresumed /\ pc' # "setup")
               => (rcv = "stop" /\ rcv' = "idle") ]_vars

W_C16 ==
    /\ pc = "processLearnButton"
    /\ rcv = "idle"
    /\ unresumed = 0
    /\ irresult.value = AllOnes
    /\ passed = 0
    /\ sent = 3
    /\ toggles = 1
    /\ commits = 1

\* C17: every loop iteration writes learnModeEnabled to the learn LED pin
\* and workLedState to the work LED pin: once the iteration has made its pin
\* writes the pins carry the state, so a change made by processIr is on the
\* pin before the next iteration polls the decoder.
C17_PinsMirrorState ==
    /\ pc \in {"processWorkLed", "processIr"} => learnLedPin = learnModeEnabled
    /\ pc = "processIr" => workLedPin = workLedState

W_C17 ==
    /\ pc = "processIr"
    /\ toggles = 2
    /\ commits = 1
    /\ ~workLedPin
    /\ ~workLedState
    /\ ~learnLedPin

\* C18: in every iteration the button is polled before the decoder: a frame
\* decoded in the iteration that committed the press edge is learned; a frame
\* decoded in the iteration that committed the release edge is matched
\* against irCodeData and never learned.
C18_ButtonBeforeDecoder ==
    /\ [](pc \in {"processIr", "delay", "resume"} => buttonEdge # "unpolled")
    /\ [][ /\ (Valid /\ IrStep /\ buttonEdge = "press")
               => /\ commits' = commits + 1
                  /\ irCodeData' = CodeOf(irresult)
                  /\ workLedState' = workLedState
           /\ (Valid /\ IrStep /\ buttonEdge = "release")
               => /\ commits' = commits
                  /\ irCodeData' = irCodeData
                  /\ eeprom' = eeprom
                  /\ (workLedState' # workLedState)
                        <=> (CodeOf(irresult) = irCodeData) ]_vars

W_C18 ==
    /\ pc = "delay"
    /\ buttonEdge = "release"
    /\ commits = 1
    /\ toggles = 1
    /\ learnButtonState = 0
    /\ irCodeData = learned.code

\* the frames that are not the sentinel
ValidEvents == {e \in Events : e.value # AllOnes}

\* C19: Learning completes: when the device is in Learning, the receiver
\* holds a valid frame and the button samples stay Pressed, the device
\* eventually leaves Learning; with the button sampled Pressed it leaves
\* Learning only by committing the frame it decodes (irCodeData becomes that
\* frame's code); a sentinel frame decoded in Learning does not end Learning.
C19_LearningCompletes ==
    /\ (learnModeEnabled /\ rcv = "stop" /\ irresult \in ValidEvents
          /\ buttonState = 1)
          ~> (~learnModeEnabled \/ buttonState # 1)
    /\ [][ /\ (learnModeEnabled /\ ~learnModeEnabled' /\ buttonState' = 1)
               => /\ LearnStep
                  /\ irCodeData' = CodeOf(irresult)
                  /\ learned'.value = irresult.value
                  /\ commits' = commits + 1
           /\ (Pending /\ IrStep /\ irresult.value = AllOnes /\ learnModeEnabled)
               => (learnModeEnabled' /\ irCodeData' = irCodeData) ]_vars

W_C19 ==
    /\ pc = "delay"
    /\ commits = 1
    /\ sent = 2
    /\ passed = 1
    /\ buttonState = 1
    /\ learnButtonState = 1
    /\ ~learnModeEnabled
    /\ irresult \in ValidEvents
    /\ irCodeData = CodeOf(irresult)
    /\ learned.value = irresult.value

====
